---- MODULE Spec2Model ----
(***************************************************************************)
(* Model of asv/_rangemedian.cpp: the weighted range-median evaluator      *)
(* (compute_weighted_median), its collision-overwrite Cache, the cached    *)
(* query RangeMedian_mu_dist behind the methods mu and dist, and the       *)
(* dynamic program RangeMedian_find_best_partition.                        *)
(*                                                                         *)
(* Numbers.  A C++ double d is written here as the integer 2*d ("half      *)
(* units"): the observations of the model carry whole-number values and    *)
(* weights, so every median (an average of two values at most), every      *)
(* deviation and every cost is a multiple of 1/2 and all the arithmetic of *)
(* the code is exact on them.  The dynamic program also sees the non-      *)
(* finite doubles (its own +infinity, and whatever gamma the caller        *)
(* passes), so its doubles are records [k, v] with k one of "fin", "pinf", *)
(* "ninf", "nan".                                                          *)
(*                                                                         *)
(* size_t.  Cache::idx works on size_t, SizeBits wide.  A size_t is        *)
(* written as a small signed representative r that stands for              *)
(* r mod 2^SizeBits.                                                       *)
(***************************************************************************)
EXTENDS Integers, Sequences, FiniteSets, TLC

VARIABLES y,        \* RangeMedianObject.y : the (value, weight) pairs, in half units
          items_,   \* Cache.items_ : slot -> Item, for the slots written so far
          ret,      \* the last call of a method: its arguments and its outcome
          budget    \* the number of calls still to be made in this run

vars == <<y, items_, ret, budget>>

(***************************************************************************)
(* Bounds of the model.                                                    *)
(***************************************************************************)
MaxN == 3          \* longest observation sequence of Spec
MaxGamma == 2      \* finite gammas are -1/2 .. MaxGamma/2, in steps of 1/2
MaxCalls == 2      \* calls per run of Spec
LongN == 83        \* length of the sequence of SpecShared

(***************************************************************************)
(* Program constants.                                                      *)
(***************************************************************************)
CacheFactor == 37
CacheOffset == 401
SizeBits == 64

(***************************************************************************)
(* Doubles of the evaluator, in half units.                                *)
(***************************************************************************)
Whole(x) == 2 * x

\* a deviation that keeps its sign
fabs_signed(x) == x

fabs(x) == IF x < 0 THEN -x ELSE x

\* a / 2 for a double a
Halve(a) == a \div 2

\* a * b for doubles a, b
Times(a, b) == (a * b) \div 2

(***************************************************************************)
(* Doubles of the dynamic program.                                         *)
(***************************************************************************)
Fin(v) == [k |-> "fin", v |-> v]
PInf == [k |-> "pinf", v |-> 0]
NInf == [k |-> "ninf", v |-> 0]
NaN == [k |-> "nan", v |-> 0]

\* a negation that is lost: B[0] = gamma
FNeg_lost(a) == a

\* -a
FNeg(a) ==
    CASE a.k = "fin" -> Fin(-a.v)
      [] a.k = "pinf" -> NInf
      [] a.k = "ninf" -> PInf
      [] OTHER -> NaN

\* a + b
FAdd(a, b) ==
    CASE a.k = "nan" \/ b.k = "nan" -> NaN
      [] a.k = "fin" /\ b.k = "fin" -> Fin(a.v + b.v)
      [] a.k = "fin" -> b
      [] b.k = "fin" -> a
      [] a.k = b.k -> a
      [] OTHER -> NaN

\* a <= b
FLe(a, b) ==
    CASE a.k = "nan" \/ b.k = "nan" -> FALSE
      [] a.k = "ninf" -> TRUE
      [] b.k = "pinf" -> TRUE
      [] a.k = "fin" /\ b.k = "fin" -> a.v <= b.v
      [] OTHER -> FALSE

(***************************************************************************)
(* compute_weighted_median                                                 *)
(***************************************************************************)
\* std::pair's operator<, by which std::sort orders tmp
PairLess(a, b) == a[1] < b[1] \/ (a[1] = b[1] /\ a[2] < b[2])

RemoveAt(s, i) == SubSeq(s, 1, i - 1) \o SubSeq(s, i + 1, Len(s))

\* a sort that leaves tmp in the order of y
std_sort_none(s) == s

RECURSIVE std_sort(_)
std_sort(s) ==
    IF Len(s) <= 1 THEN s
    ELSE LET i == CHOOSE i \in 1..Len(s) :
                      /\ \A j \in 1..Len(s) : ~PairLess(s[j], s[i])
                      /\ \A j \in 1..(i - 1) : s[j] # s[i]
         IN  <<s[i]>> \o std_sort(RemoveAt(s, i))

\* the sum of it->second over the first k elements of tmp
RECURSIVE WeightSum(_, _)
WeightSum(tmp, k) == IF k = 0 THEN 0 ELSE WeightSum(tmp, k - 1) + tmp[k][2]

\* where the scan for wsum >= midpoint stops: Len(tmp) + 1 stands for tmp.end()
RECURSIVE ScanFrom(_, _, _)
ScanFrom(tmp, midpoint, k) ==
    IF k > Len(tmp) THEN k
    ELSE IF WeightSum(tmp, k) >= midpoint THEN k
    ELSE ScanFrom(tmp, midpoint, k + 1)

RECURSIVE Deviation(_, _, _)
Deviation(s, mu, k) ==
    IF k = 0 THEN 0
    ELSE Deviation(s, mu, k - 1) + Times(s[k][2], fabs(s[k][1] - mu))

\* a midpoint that is the whole sum of the weights
Midpoint_whole(tmp) == WeightSum(tmp, Len(tmp))

\* midpoint: the sum of the weights, halved
Midpoint(tmp) == Halve(WeightSum(tmp, Len(tmp)))

MedianOfSorted(tmp) ==
    LET midpoint == Midpoint(tmp)
        it == ScanFrom(tmp, midpoint, 1)
        wsum == WeightSum(tmp, IF it > Len(tmp) THEN Len(tmp) ELSE it)
    IN  IF it <= Len(tmp)
        THEN IF wsum = midpoint /\ it + 1 <= Len(tmp)
             THEN Halve(tmp[it + 1][1] + tmp[it][1])
             ELSE tmp[it][1]
        ELSE tmp[Len(tmp)][1]

\* s is the range [start, end) of y, for start <= end
compute_weighted_median(s) ==
    IF s = <<>> THEN [mu |-> 0, dist |-> 0]
    ELSE LET mu == MedianOfSorted(std_sort(s))
         IN  [mu |-> mu, dist |-> Deviation(s, mu, Len(s))]

(***************************************************************************)
(* Cache                                                                   *)
(***************************************************************************)
\* the Item a slot holds after Cache's constructor
EmptyItem == [left |-> -1, right |-> 0, mu |-> 0, dist |-> 0]

\* items_.size() for a sequence of n observations
CacheSize(n) == CacheFactor * n + CacheOffset

ItemAt(items, i) == IF i \in DOMAIN items THEN items[i] ELSE EmptyItem

RECURSIVE Pow2Mod(_, _)
Pow2Mod(e, m) == IF e = 0 THEN 1 % m ELSE (2 * Pow2Mod(e - 1, m)) % m

\* r % m for the size_t that r stands for
SizeMod(r, m) == IF r >= 0 THEN r % m ELSE (Pow2Mod(SizeBits, m) + (r % m)) % m

idx(items_size, left, right) ==
    LET n == right - left
        a == n + left
        k == (a * (a + 1)) \div 2 + n
    IN  SizeMod(k, items_size)

\* a get that takes any written slot for a hit
Cache_get_any(items, items_size, left, right) ==
    LET it == ItemAt(items, idx(items_size, left, right))
    IN  [hit |-> it.left # -1, mu |-> it.mu, dist |-> it.dist]

Cache_get(items, items_size, left, right) ==
    LET it == ItemAt(items, idx(items_size, left, right))
    IN  [hit |-> it.left = left /\ it.right = right, mu |-> it.mu, dist |-> it.dist]

\* a set that stores the values but leaves the range of the slot as it was
Cache_set_values(items, items_size, left, right, mu, dist) ==
    (idx(items_size, left, right) :>
        [ItemAt(items, idx(items_size, left, right)) EXCEPT !.mu = mu, !.dist = dist])
        @@ items

Cache_set(items, items_size, left, right, mu, dist) ==
    (idx(items_size, left, right) :> [left |-> left, right |-> right, mu |-> mu, dist |-> dist])
        @@ items

(***************************************************************************)
(* RangeMedian_mu_dist                                                     *)
(***************************************************************************)
\* a range check that turns the last observation away
OutOfRange_tight(left, right, size) ==
    left < 0 \/ right < 0 \/ left >= size - 1 \/ right >= size - 1

OutOfRange(left, right, size) ==
    left < 0 \/ right < 0 \/ left >= size \/ right >= size

\* What a build may do when compute_weighted_median is handed start > end
\* (tmp.insert with a reversed iterator range is undefined): end the process,
\* or come back with some mu and dist.
Crash == [crash |-> TRUE, mu |-> 0, dist |-> 0]

UBOutcomes == {Crash} \cup {[crash |-> FALSE, mu |-> m, dist |-> 0] : m \in {0, Whole(1)}}

RangeMedian_mu_dist(items, left, right, ub) ==
    LET size == Len(y)
        cap == CacheSize(size)
        g == Cache_get(items, cap, left, right)
    IN  IF OutOfRange(left, right, size)
        THEN [status |-> "ValueError", mu |-> 0, dist |-> 0, items |-> items,
              computed |-> FALSE]
        ELSE IF g.hit
        THEN [status |-> "ok", mu |-> g.mu, dist |-> g.dist, items |-> items,
              computed |-> FALSE]
        ELSE IF left > right + 1
        THEN IF ub.crash
             THEN [status |-> "crash", mu |-> 0, dist |-> 0, items |-> items,
                   computed |-> TRUE]
             ELSE [status |-> "ok", mu |-> ub.mu, dist |-> ub.dist,
                   items |-> Cache_set(items, cap, left, right, ub.mu, ub.dist),
                   computed |-> TRUE]
        ELSE LET m == compute_weighted_median(SubSeq(y, left + 1, right + 1))
             IN  [status |-> "ok", mu |-> m.mu, dist |-> m.dist,
                  items |-> Cache_set(items, cap, left, right, m.mu, m.dist),
                  computed |-> TRUE]

(***************************************************************************)
(* RangeMedian_find_best_partition                                         *)
(***************************************************************************)
\* a check that forgets the end of the sequence
ValidBounds_noend(min_size, max_size, min_pos, max_pos, size) ==
    /\ 0 < min_size /\ min_size <= max_size
    /\ 0 <= min_pos /\ min_pos <= max_pos

ValidBounds(min_size, max_size, min_pos, max_pos, size) ==
    /\ 0 < min_size /\ min_size <= max_size
    /\ 0 <= min_pos /\ min_pos <= max_pos /\ max_pos <= size

Max(a, b) == IF a < b THEN b ELSE a

\* aa and bb: the candidate starts of a segment that ends at right are aa .. bb-1
\* a candidate range that starts one past the longest segment
CandidateLo_late(right, max_size, min_pos) == Max(right + 2 - max_size, min_pos)

CandidateLo(right, max_size, min_pos) == Max(right + 1 - max_size, min_pos)

\* a candidate range that stops one short of the shortest segment
CandidateHi_short(right, min_size, min_pos) == Max(right + 1 - min_size, min_pos)

CandidateHi(right, min_size, min_pos) == Max(right + 1 - min_size + 1, min_pos)

\* a cost that leaves the penalty out
CandidateCost_nogamma(Bleft, gamma, dist) == FAdd(Bleft, Fin(dist))

\* b = B[left - min_pos] + gamma + dist
CandidateCost(Bleft, gamma, dist) == FAdd(FAdd(Bleft, gamma), Fin(dist))

\* a test that is strict:  b < B[right + 1 - min_pos]
Accepts_strict(b, best) == FLe(b, best) /\ b # best

\* the test  b <= B[right + 1 - min_pos]
Accepts(b, best) == FLe(b, best)

\* a backpointer that names the segment's start, not the index before it
Backpointer_start(left) == left

\* p[right - min_pos] = left - 1
Backpointer(left) == left - 1

\* a first cost that is the 0 the vector was filled with
Unreached_zero == Fin(0)

\* inf, the cost of a position before any candidate is tried
Unreached == PInf

\* B[i] and p[i] of the code are B[i + 1] and p[i + 1] here
At(v, i) == v[i + 1]

Put(v, i, x) == [v EXCEPT ![i + 1] = x]

\* One pass of the inner loop, from left up to bb - 1.  d is the state of the call:
\* B, p, the cache, the mu_dist calls made and the ranges computed so far.
\* the call once mu_dist has answered r for (left, right)
Asked(d, r, left, right) ==
    [d EXCEPT !.items = r.items,
              !.status = r.status,
              !.queries = Append(@, <<left, right>>),
              !.computes = IF r.computed THEN Append(@, <<left, right>>) ELSE @]

\* a step that keeps the backpointer of an accepted candidate but not its cost
Keep_backpointer(asked, b, left, right, a) ==
    IF Accepts(b, At(asked.B, right + 1 - a.min_pos))
    THEN [asked EXCEPT !.p = Put(@, right - a.min_pos, Backpointer(left))]
    ELSE asked

\* the candidate cost b is kept, with its backpointer, when it passes the test
Keep(asked, b, left, right, a) ==
    IF Accepts(b, At(asked.B, right + 1 - a.min_pos))
    THEN [asked EXCEPT !.B = Put(@, right + 1 - a.min_pos, b),
                       !.p = Put(@, right - a.min_pos, Backpointer(left))]
    ELSE asked

\* the body of the inner loop for one left; a failed mu_dist ends the call
InnerStep(d, r, left, right, a) ==
    IF r.status # "ok" THEN Asked(d, r, left, right)
    ELSE Keep(Asked(d, r, left, right),
              CandidateCost(At(d.B, left - a.min_pos), a.gamma, r.dist),
              left, right, a)

RECURSIVE InnerLoop(_, _, _, _, _)
InnerLoop(d, left, bb, right, a) ==
    IF left >= bb \/ d.status # "ok" THEN d
    ELSE InnerLoop(InnerStep(d, RangeMedian_mu_dist(d.items, left, right, a.ub),
                             left, right, a),
                   left + 1, bb, right, a)

RECURSIVE OuterLoop(_, _, _)
OuterLoop(d, right, a) ==
    IF right >= a.max_pos \/ d.status # "ok" THEN d
    ELSE OuterLoop(InnerLoop([d EXCEPT !.B = Put(@, right + 1 - a.min_pos, Unreached)],
                             CandidateLo(right, a.max_size, a.min_pos),
                             CandidateHi(right, a.min_size, a.min_pos),
                             right, a),
                   right + 1, a)

\* no list is built when the loops ended on an error
Returned(d) == IF d.status = "ok" THEN d ELSE [d EXCEPT !.p = <<>>]

\* a is the record of the arguments (and of what an undefined step does)
find_best_partition(items, a) ==
    IF ~ValidBounds(a.min_size, a.max_size, a.min_pos, a.max_pos, Len(y))
    THEN [status |-> "ValueError", B |-> <<>>, p |-> <<>>, items |-> items,
          queries |-> <<>>, computes |-> <<>>]
    ELSE Returned(OuterLoop(
             [status |-> "ok",
              B |-> [i \in 1..(a.max_pos - a.min_pos + 1) |->
                        IF i = 1 THEN FNeg(a.gamma) ELSE Fin(0)],
              p |-> [i \in 1..(a.max_pos - a.min_pos) |-> 0],
              items |-> items, queries |-> <<>>, computes |-> <<>>],
             a.min_pos, a))

(***************************************************************************)
(* The methods of RangeMedian, as actions.  ret records the call: before  *)
(* is the cache as the call found it.                                      *)
(***************************************************************************)
NoCall ==
    [op |-> "none", left |-> 0, right |-> 0, gamma |-> Fin(0),
     min_size |-> 0, max_size |-> 0, min_pos |-> 0, max_pos |-> 0,
     status |-> "ok", val |-> 0, p |-> <<>>, B |-> <<>>,
     queries |-> <<>>, computes |-> <<>>, before |-> <<>>]

Alive == ret.status # "crash" /\ budget > 0

\* mu and dist share their body but for the value they return
Query(op, left, right, ub) ==
    \E r \in {RangeMedian_mu_dist(items_, left, right, ub)} :
        /\ items_' = r.items
        /\ ret' = [NoCall EXCEPT !.op = op, !.left = left, !.right = right,
                                 !.status = r.status,
                                 !.val = IF r.status = "ok"
                                         THEN (IF op = "mu" THEN r.mu ELSE r.dist)
                                         ELSE 0,
                                 !.queries = <<<<left, right>>>>,
                                 !.computes = IF r.computed THEN <<<<left, right>>>>
                                              ELSE <<>>,
                                 !.before = items_]
        /\ budget' = budget - 1
        /\ UNCHANGED y

\* the arguments a caller tries: every index of y, and one on either side
Indices == -1..Len(y)

\* the outcomes to tell apart: those of the undefined step when the call takes it
QueryOutcomes(left, right) ==
    IF RangeMedian_mu_dist(items_, left, right, Crash).status = "crash"
    THEN UBOutcomes ELSE {Crash}

RangeMedian_mu ==
    /\ Alive
    /\ \E left \in Indices, right \in Indices :
           \E ub \in QueryOutcomes(left, right) : Query("mu", left, right, ub)

RangeMedian_dist ==
    /\ Alive
    /\ \E left \in Indices, right \in Indices :
           \E ub \in QueryOutcomes(left, right) : Query("dist", left, right, ub)

\* the arguments of a call, with what its undefined step does
Args(gamma, min_size, max_size, min_pos, max_pos, ub) ==
    [gamma |-> gamma, min_size |-> min_size, max_size |-> max_size,
     min_pos |-> min_pos, max_pos |-> max_pos, ub |-> ub]

\* the outcomes of a call: one for each outcome of the undefined step it takes
PlanOutcomes(d0, a0) ==
    IF d0.status = "crash"
    THEN {d0} \cup {find_best_partition(items_, [a0 EXCEPT !.ub = ub]) :
                        ub \in UBOutcomes \ {Crash}}
    ELSE {d0}

Plan(gamma, min_size, max_size, min_pos, max_pos) ==
    \E a0 \in {Args(gamma, min_size, max_size, min_pos, max_pos, Crash)} :
    \E d \in PlanOutcomes(find_best_partition(items_, a0), a0) :
        /\ items_' = d.items
        /\ ret' = [NoCall EXCEPT !.op = "find_best_partition", !.gamma = gamma,
                                 !.min_size = min_size, !.max_size = max_size,
                                 !.min_pos = min_pos, !.max_pos = max_pos,
                                 !.status = d.status, !.p = d.p, !.B = d.B,
                                 !.queries = d.queries, !.computes = d.computes,
                                 !.before = items_]
        /\ budget' = budget - 1
        /\ UNCHANGED y

FiniteGammas == {Fin(g) : g \in -1..MaxGamma}

Gammas == FiniteGammas \cup {PInf, NInf, NaN}

\* every gamma, every size and every position a caller tries
RangeMedian_find_best_partition ==
    /\ Alive
    /\ \E gamma \in Gammas, min_size \in 0..Len(y), max_size \in 1..Len(y),
          min_pos \in -1..Len(y), max_pos \in 0..(Len(y) + 1) :
           Plan(gamma, min_size, max_size, min_pos, max_pos)

\* the same method with the penalty 1/2, on the whole sequence with every pair of
\* sizes, and with one call for each way of breaking the bounds
FewBounds ==
    LET n == Len(y)
    IN  {<<a, b, 0, n>> : a \in 1..n, b \in 1..n}
            \cup {<<0, 1, 0, n>>, <<1, 1, -1, n>>, <<1, 1, n, n - 1>>, <<1, 1, 0, n + 1>>}

RangeMedian_find_best_partition_few ==
    /\ Alive
    /\ \E c \in FewBounds : Plan(Fin(1), c[1], c[2], c[3], c[4])

\* the names of the methods table of the type
RangeMedian_methods == {"mu", "dist", "find_best_partition"}

\* the names a caller asks the object for: those of the table, and precompute
CalledNames == RangeMedian_methods \cup {"precompute"}

\* A call of a name the table does not hold: the type has no other attributes and
\* its objects have no dictionary, so the lookup fails and nothing is run.
RangeMedian_missing_method ==
    /\ Alive
    /\ \E name \in CalledNames \ RangeMedian_methods :
           /\ ret' = [NoCall EXCEPT !.op = name, !.status = "AttributeError",
                                    !.max_size = Len(y), !.min_pos = 0,
                                    !.max_pos = Len(y), !.before = items_]
           /\ budget' = budget - 1
           /\ UNCHANGED <<y, items_>>

(***************************************************************************)
(* RangeMedian_init: the observations a run starts from.                   *)
(***************************************************************************)
Values == {1, 2, 3}

Weights == {0, 1, 3}

Pairs == {<<Whole(v), Whole(w)>> : v \in Values, w \in Weights}

Observations(n) == [1..n -> Pairs]

UnitPairs == {<<Whole(v), Whole(1)>> : v \in Values}

\* the sequence of the documented scenario
Scenario == [i \in 1..6 |-> <<Whole(<<1, 2, 3, 10, 11, 12>>[i]), Whole(1)>>]

Fresh == [i \in {} |-> EmptyItem]

InitOn(ys, calls) ==
    /\ y \in ys
    /\ items_ = Fresh
    /\ ret = NoCall
    /\ budget = calls

\* the cache after mu has been asked for every range (left, right), left <= right
RECURSIVE AskAll(_, _, _, _)
AskAll(items, left, right, size) ==
    IF left >= size THEN items
    ELSE IF right >= size THEN AskAll(items, left + 1, left + 1, size)
    ELSE LET r == RangeMedian_mu_dist(items, left, right, Crash)
         IN  IF r.status # "ok" THEN items
             ELSE AskAll(r.items, left, right + 1, size)

Warm(size) == AskAll(Fresh, 0, 0, size)

\* Spec: runs of MaxCalls calls of any method on two sequences of length MaxN
Ramp == [i \in 1..MaxN |-> <<Whole(i), Whole(1)>>]

Slope == [i \in 1..MaxN |-> <<Whole(MaxN + 1 - i), Whole(i)>>]

Init == InitOn({Ramp, Slope}, MaxCalls)

Next ==
    \/ RangeMedian_mu
    \/ RangeMedian_dist
    \/ RangeMedian_find_best_partition_few
    \/ RangeMedian_missing_method

Spec == Init /\ [][Next]_vars

\* SpecEval: one query on every sequence of at most MaxN observations
InitEval == InitOn(UNION {Observations(n) : n \in 1..MaxN}, 1)

NextEval == RangeMedian_mu \/ RangeMedian_dist

SpecEval == InitEval /\ [][NextEval]_vars

\* SpecPlan: one find_best_partition on unit-weight sequences and on the scenario,
\* called on the new object or (on the short sequences) after mu has been asked
\* for every range
InitPlan ==
    /\ y \in (UNION {[1..n -> UnitPairs] : n \in 1..MaxN}) \cup {Scenario}
    /\ items_ \in {Fresh} \cup (IF Len(y) <= MaxN THEN {Warm(Len(y))} ELSE {})
    /\ ret = NoCall
    /\ budget = 1

NextPlan == RangeMedian_find_best_partition

SpecPlan == InitPlan /\ [][NextPlan]_vars

\* SpecShared: runs of MaxCalls queries on a sequence long enough for the slot
\* numbers of its longest ranges to pass the size of the cache and wrap around
Long == [i \in 1..LongN |-> <<Whole(1 + (i % 3)), Whole(1 + (i % 2))>>]

\* the ranges that end at the last observation and start at one of the first four
LongRanges == {<<left, Len(y) - 1>> : left \in 0..3}

\* the long ranges, and the ranges of y that look at the same slots as they do
SharedRanges ==
    {c \in (0..(Len(y) - 1)) \X (0..(Len(y) - 1)) :
        /\ c[1] <= c[2]
        /\ \E g \in LongRanges :
               idx(CacheSize(Len(y)), c[1], c[2]) = idx(CacheSize(Len(y)), g[1], g[2])}

RangeMedian_mu_shared ==
    /\ Alive
    /\ \E c \in SharedRanges : Query("mu", c[1], c[2], Crash)

RangeMedian_dist_shared ==
    /\ Alive
    /\ \E c \in SharedRanges : Query("dist", c[1], c[2], Crash)

InitShared == InitOn({Long}, MaxCalls)

NextShared == RangeMedian_mu_shared \/ RangeMedian_dist_shared

SpecShared == InitShared /\ [][NextShared]_vars

(***************************************************************************)
(* What the properties below speak of.                                     *)
(***************************************************************************)
IsFinite(a) == a.k = "fin"

\* a < b
FLt(a, b) == FLe(a, b) /\ a # b

IsQuery == ret.op \in {"mu", "dist"}

IsPlan == ret.op = "find_best_partition"

ValidRange(left, right) == 0 <= left /\ left <= right /\ right < Len(y)

\* compute_weighted_median on the observations left..right, with no cache
Direct(left, right) == compute_weighted_median(SubSeq(y, left + 1, right + 1))

DirectValue(op, left, right) ==
    IF op = "mu" THEN Direct(left, right).mu ELSE Direct(left, right).dist

\* the slot of the cache a query of (left, right) looks at
SlotOf(left, right) == idx(CacheSize(Len(y)), left, right)

(***************************************************************************)
(* C1  Cache transparency.  Whatever calls came before, colliding ones     *)
(* included, a mu or dist query of a valid range succeeds with exactly     *)
(* the value compute_weighted_median gives on that range of y; and every   *)
(* slot of the cache that holds a valid range holds that range's directly  *)
(* computed mu and dist, so a repeated query returns the same value again. *)
(***************************************************************************)
C1_CacheTransparent ==
    /\ (IsQuery /\ ValidRange(ret.left, ret.right)) =>
           /\ ret.status = "ok"
           /\ ret.val = DirectValue(ret.op, ret.left, ret.right)
    /\ \A i \in DOMAIN items_ :
           ValidRange(items_[i].left, items_[i].right) =>
               /\ items_[i].mu = Direct(items_[i].left, items_[i].right).mu
               /\ items_[i].dist = Direct(items_[i].left, items_[i].right).dist

\* a valid query found its slot holding another range and answered all the same
C1_Witness ==
    /\ IsQuery /\ ValidRange(ret.left, ret.right) /\ ret.status = "ok"
    /\ ItemAt(ret.before, SlotOf(ret.left, ret.right)).left \notin {-1, ret.left}
    /\ ret.val = DirectValue(ret.op, ret.left, ret.right)
    /\ ret.val # 0

(***************************************************************************)
(* C4  Every mu or dist query whose indices violate 0 <= left <= right < n *)
(* fails with the out-of-range error, computes no median, returns no value *)
(* and leaves every slot of the cache unchanged.                           *)
(***************************************************************************)
C4_InvalidRangeFails ==
    (IsQuery /\ ~ValidRange(ret.left, ret.right)) =>
        /\ ret.status = "ValueError"
        /\ ret.computes = <<>>
        /\ items_ = ret.before

(***************************************************************************)
(* Partitions and the walk along the backpointers.                         *)
(***************************************************************************)
\* the partitions of lo .. hi-1 into segments <<left, right>> of mn to mx elements
RECURSIVE Partitions(_, _, _, _)
Partitions(lo, hi, mn, mx) ==
    IF lo >= hi THEN {<<>>}
    ELSE UNION {{<<<<lo, lo + k - 1>>>> \o q : q \in Partitions(lo + k, hi, mn, mx)} :
                    k \in {j \in mn..mx : lo + j <= hi}}

\* the sum over the segments of q of dist(segment) + gamma
RECURSIVE PartitionCost(_, _, _)
PartitionCost(q, gamma, k) ==
    IF k = 0 THEN Fin(0)
    ELSE FAdd(PartitionCost(q, gamma, k - 1),
              FAdd(Fin(Direct(q[k][1], q[k][2]).dist), gamma))

Cost(q, gamma) == PartitionCost(q, gamma, Len(q))

\* current := p[current - min_pos] from current on, for at most fuel steps: ok tells
\* that every read was inside p, every step went down and min_pos - 1 was reached
RECURSIVE Walk(_, _, _, _)
Walk(p, min_pos, current, fuel) ==
    IF current = min_pos - 1 THEN [ok |-> TRUE, segs |-> <<>>]
    ELSE IF fuel = 0 \/ current < min_pos \/ current - min_pos + 1 > Len(p)
    THEN [ok |-> FALSE, segs |-> <<>>]
    ELSE LET q == p[current - min_pos + 1]
             w == Walk(p, min_pos, q, fuel - 1)
         IN  IF q >= current THEN [ok |-> FALSE, segs |-> <<>>]
             ELSE [ok |-> w.ok, segs |-> Append(w.segs, <<q + 1, current>>)]

\* the walk of the last call, from max_pos - 1
RetWalk == Walk(ret.p, ret.min_pos, ret.max_pos - 1, ret.max_pos - ret.min_pos)

RetPartitions == Partitions(ret.min_pos, ret.max_pos, ret.min_size, ret.max_size)

PlanDone == IsPlan /\ ret.status = "ok"

(***************************************************************************)
(* C2  Optimality, as claimed: for every successful call with              *)
(* min_pos < max_pos for which a partition of [min_pos, max_pos) into      *)
(* segments of min_size to max_size elements exists, the backpointers lead *)
(* from max_pos - 1 to min_pos - 1 along such a partition, and no such     *)
(* partition costs less.                                                   *)
(***************************************************************************)
C2_OptimalAnyGamma ==
    (PlanDone /\ ret.min_pos < ret.max_pos /\ RetPartitions # {}) =>
        /\ RetWalk.ok
        /\ RetWalk.segs \in RetPartitions
        /\ \A q \in RetPartitions : FLe(Cost(RetWalk.segs, ret.gamma), Cost(q, ret.gamma))

(***************************************************************************)
(* C2  Optimality, amended: the same for every call whose gamma is finite. *)
(***************************************************************************)
C2_Optimal ==
    (PlanDone /\ IsFinite(ret.gamma) /\ ret.min_pos < ret.max_pos /\ RetPartitions # {}) =>
        /\ RetWalk.ok
        /\ RetWalk.segs \in RetPartitions
        /\ \A q \in RetPartitions : FLe(Cost(RetWalk.segs, ret.gamma), Cost(q, ret.gamma))

\* a call that had several partitions to choose from and took a cheapest one that is
\* neither the finest nor the coarsest
C2_Witness ==
    /\ PlanDone /\ IsFinite(ret.gamma) /\ ret.min_pos < ret.max_pos
    /\ Cardinality(RetPartitions) >= 3
    /\ RetWalk.ok /\ RetWalk.segs \in RetPartitions
    /\ Len(RetWalk.segs) > 1 /\ Len(RetWalk.segs) < ret.max_pos - ret.min_pos
    /\ \A q \in RetPartitions \ {RetWalk.segs} :
           FLt(Cost(RetWalk.segs, ret.gamma), Cost(q, ret.gamma))

(***************************************************************************)
(* C3  The scenario, as claimed: on the values 1, 2, 3, 10, 11, 12 with    *)
(* weights 1, find_best_partition(0.5, 1, 3, 0, 6) returns backpointers    *)
(* with p[5] = 2 and p[2] = -1, the two segments [0,2] and [3,5].          *)
(***************************************************************************)
IsScenarioCall ==
    /\ IsPlan /\ y = Scenario /\ ret.gamma = Fin(1)
    /\ ret.min_size = 1 /\ ret.max_size = 3 /\ ret.min_pos = 0 /\ ret.max_pos = 6

C3_ScenarioTwoSegments ==
    IsScenarioCall =>
        /\ ret.status = "ok"
        /\ RetWalk.ok
        /\ RetWalk.segs = <<<<0, 2>>, <<3, 5>>>>

(***************************************************************************)
(* C3  The scenario, amended: that call returns p = [-1, 0, 1, 2, 3, 4],   *)
(* the six one-element segments, whose cost 6 * (0 + 0.5) = 3 is below    *)
(* the cost 2 * (2 + 0.5) = 5 of the two segments [0,2] and [3,5].         *)
(***************************************************************************)
C3_ScenarioSingletons ==
    IsScenarioCall =>
        /\ ret.status = "ok"
        /\ ret.p = <<-1, 0, 1, 2, 3, 4>>
        /\ Cost(RetWalk.segs, ret.gamma) = Fin(Whole(3))
        /\ Cost(<<<<0, 2>>, <<3, 5>>>>, ret.gamma) = Fin(Whole(5))

C3_Witness ==
    /\ IsScenarioCall /\ ret.status = "ok"
    /\ RetWalk.ok /\ Len(RetWalk.segs) = 6

(***************************************************************************)
(* C5  find_best_partition fails with the invalid-bounds error whenever    *)
(* one of 0 < min_size, min_size <= max_size, 0 <= min_pos,                *)
(* min_pos <= max_pos, max_pos <= n is violated; it then returns no        *)
(* backpointers, asks the evaluator nothing and leaves the cache as it     *)
(* was.                                                                    *)
(***************************************************************************)
BoundsViolated ==
    \/ ret.min_size <= 0
    \/ ret.min_size > ret.max_size
    \/ ret.min_pos < 0
    \/ ret.min_pos > ret.max_pos
    \/ ret.max_pos > Len(y)

C5_InvalidBoundsFail ==
    (IsPlan /\ BoundsViolated) =>
        /\ ret.status = "ValueError"
        /\ ret.p = <<>>
        /\ ret.queries = <<>>
        /\ items_ = ret.before

\* a call whose only fault is a max_pos past the end, made on a filled cache
C5_Witness ==
    /\ IsPlan /\ ret.status = "ValueError"
    /\ ret.max_pos > Len(y)
    /\ 0 < ret.min_size /\ ret.min_size <= ret.max_size
    /\ 0 <= ret.min_pos /\ ret.min_pos <= ret.max_pos
    /\ items_ # Fresh /\ items_ = ret.before

(***************************************************************************)
(* C6  Backpointers within the constraints, as claimed: after every        *)
(* successful call, for every right in [min_pos, max_pos) the entry        *)
(* q = p[right - min_pos] satisfies min_pos - 1 <= q < right and           *)
(* min_size <= right - q <= max_size.                                      *)
(***************************************************************************)
EntryFits(right) ==
    LET q == ret.p[right - ret.min_pos + 1]
    IN  /\ ret.min_pos - 1 <= q /\ q < right
        /\ ret.min_size <= right - q /\ right - q <= ret.max_size

C7_WalkAlwaysEnds ==
    (PlanDone /\ ret.min_pos < ret.max_pos) => RetWalk.ok

(***************************************************************************)
(* C7  Amended: the same for every call with a finite gamma for which a    *)
(* partition of [min_pos, max_pos) into segments of min_size to max_size   *)
(* elements exists.                                                        *)
(***************************************************************************)
C7_WalkEnds ==
    (PlanDone /\ IsFinite(ret.gamma) /\ ret.min_pos < ret.max_pos /\ RetPartitions # {}) =>
        RetWalk.ok

\* a walk of more than one step that ends
C7_Witness ==
    /\ PlanDone /\ IsFinite(ret.gamma) /\ ret.min_pos < ret.max_pos
    /\ RetPartitions # {}
    /\ RetWalk.ok /\ Len(RetWalk.segs) >= 2
    /\ ret.min_pos > 0

(***************************************************************************)
(* The observations of a range, and sums over them.                        *)
(***************************************************************************)
Range(left, right) == SubSeq(y, left + 1, right + 1)

RetRange == Range(ret.left, ret.right)

QueryDone == IsQuery /\ ValidRange(ret.left, ret.right) /\ ret.status = "ok"

\* the sum of the weights of the observations of s whose value is in vs
RECURSIVE WeightIn(_, _, _)
WeightIn(s, vs, k) ==
    IF k = 0 THEN 0
    ELSE WeightIn(s, vs, k - 1) + (IF s[k][1] \in vs THEN s[k][2] ELSE 0)

ValuesOf(s) == {s[k][1] : k \in 1..Len(s)}

HasWeight(pair) == pair[2] # 0

(***************************************************************************)
(* C8  Zero weights do not count: for every valid range with a positive    *)
(* weight in it, mu and dist are what the same algorithm gives on the      *)
(* range with its zero-weight observations taken out.                      *)
(***************************************************************************)
C8_ZeroWeightsIgnored ==
    (QueryDone /\ \E k \in 1..Len(RetRange) : HasWeight(RetRange[k])) =>
        LET m == compute_weighted_median(SelectSeq(RetRange, HasWeight))
        IN  ret.val = IF ret.op = "mu" THEN m.mu ELSE m.dist

(***************************************************************************)
(* C9  mu is a weighted median: for every valid range whose weights are    *)
(* all positive, the observations with a value below mu carry at most half *)
(* of the range's weight and so do those with a value above it; the values *)
(* 1, 2 with the weights 1, 3 give mu = 2.                                 *)
(***************************************************************************)
Example13 == <<<<Whole(1), Whole(1)>>, <<Whole(2), Whole(3)>>>>

C9_WeightedMedian ==
    /\ (QueryDone /\ ret.op = "mu" /\ \A k \in 1..Len(RetRange) : RetRange[k][2] > 0) =>
           LET total == WeightIn(RetRange, ValuesOf(RetRange), Len(RetRange))
               below == WeightIn(RetRange, {v \in ValuesOf(RetRange) : v < ret.val},
                                 Len(RetRange))
               above == WeightIn(RetRange, {v \in ValuesOf(RetRange) : v > ret.val},
                                 Len(RetRange))
           IN  2 * below <= total /\ 2 * above <= total
    /\ (QueryDone /\ ret.op = "mu" /\ RetRange = Example13) => ret.val = Whole(2)

\* the example, and with it a range whose heavier half decides
C9_Witness ==
    /\ QueryDone /\ ret.op = "mu" /\ RetRange = Example13
    /\ ret.val = Whole(2)

(***************************************************************************)
(* C10  With every weight 1 the evaluator is the textbook one: mu is the   *)
(* middle value of the sorted range when it has an odd number of           *)
(* observations and the average of the two central ones when even, and     *)
(* dist is the sum of |value - median| over the range.                     *)
(***************************************************************************)
\* the values of s in ascending order
Ascending(s) ==
    CHOOSE t \in [1..Len(s) -> ValuesOf(s)] :
        /\ \A i \in 1..(Len(s) - 1) : t[i] <= t[i + 1]
        /\ \A v \in ValuesOf(s) :
               Cardinality({i \in 1..Len(s) : t[i] = v})
                   = Cardinality({i \in 1..Len(s) : s[i][1] = v})

TextbookMedian(s) ==
    LET t == Ascending(s)
        k == Len(s)
    IN  IF k % 2 = 1 THEN t[(k + 1) \div 2]
        ELSE (t[k \div 2] + t[k \div 2 + 1]) \div 2

RECURSIVE AbsoluteDeviation(_, _, _)
AbsoluteDeviation(s, m, k) ==
    IF k = 0 THEN 0 ELSE AbsoluteDeviation(s, m, k - 1) + fabs(s[k][1] - m)

C10_UnitWeightsTextbook ==
    (QueryDone /\ \A k \in 1..Len(RetRange) : RetRange[k][2] = Whole(1)) =>
        ret.val = IF ret.op = "mu" THEN TextbookMedian(RetRange)
                  ELSE AbsoluteDeviation(RetRange, TextbookMedian(RetRange), Len(RetRange))

\* the documented dist(0,2) = 2 on the values 1, 2, 3, given in another order
C10_Witness ==
    /\ QueryDone /\ ret.op = "dist"
    /\ RetRange = <<<<Whole(3), Whole(1)>>, <<Whole(1), Whole(1)>>, <<Whole(2), Whole(1)>>>>
    /\ ret.val = Whole(2)

(***************************************************************************)
(* C11  dist is a distance: for every valid range (the weights are never   *)
(* negative) dist(left, right) >= 0; and when every weight of the range is *)
(* positive, dist(left, right) = 0 exactly when all the values of the      *)
(* range are equal, as they are in every range of one observation.         *)
(***************************************************************************)
AllPositive(s) == \A k \in 1..Len(s) : s[k][2] > 0

C11_DistSign ==
    (QueryDone /\ ret.op = "dist") =>
        /\ \A k \in 1..Len(RetRange) : RetRange[k][2] >= 0
        /\ ret.val >= 0
        /\ AllPositive(RetRange) =>
               (ret.val = 0 <=> Cardinality(ValuesOf(RetRange)) = 1)
        /\ (AllPositive(RetRange) /\ ret.left = ret.right) => ret.val = 0

\* a range of positive weights whose values differ, and so a positive dist
C11_Witness ==
    /\ QueryDone /\ ret.op = "dist"
    /\ AllPositive(RetRange)
    /\ Cardinality(ValuesOf(RetRange)) > 1
    /\ ret.val > 0

(***************************************************************************)
(* C12  One segment, as claimed: after every successful call with          *)
(* min_pos < max_pos and min_size = max_size = max_pos - min_pos the last  *)
(* backpointer names the whole range, p[max_pos - 1 - min_pos] =           *)
(* min_pos - 1.                                                            *)
(***************************************************************************)
WholeRangeCall ==
    /\ PlanDone /\ ret.min_pos < ret.max_pos
    /\ ret.min_size = ret.max_pos - ret.min_pos
    /\ ret.max_size = ret.max_pos - ret.min_pos

C12_OneSegmentAnyGamma ==
    WholeRangeCall => ret.p[ret.max_pos - ret.min_pos] = ret.min_pos - 1

(***************************************************************************)
(* C12  Amended: the same for every such call whose gamma is finite, and   *)
(* then the walk from max_pos - 1 gives the one segment                    *)
(* [min_pos, max_pos - 1].                                                 *)
(***************************************************************************)
C12_OneSegment ==
    (WholeRangeCall /\ IsFinite(ret.gamma)) =>
        /\ ret.p[ret.max_pos - ret.min_pos] = ret.min_pos - 1
        /\ RetWalk.ok
        /\ RetWalk.segs = <<<<ret.min_pos, ret.max_pos - 1>>>>

\* a whole range of several observations whose backpointer is not the 0 that p
\* was filled with
C12_Witness ==
    /\ WholeRangeCall /\ IsFinite(ret.gamma)
    /\ ret.max_pos - ret.min_pos >= 2
    /\ ret.min_pos # 1
    /\ ret.p[ret.max_pos - ret.min_pos] = ret.min_pos - 1

(***************************************************************************)
(* C13  precompute: the object has an operation precompute(max_size,       *)
(* min_pos, max_pos); every call of it succeeds and leaves the             *)
(* observations and every slot of the cache as they were.                  *)
(***************************************************************************)
C13_PrecomputeSucceeds ==
    ret.op = "precompute" =>
        /\ ret.status = "ok"
        /\ items_ = ret.before

(***************************************************************************)
(* The recurrence, read off the arrays B and p of the last call.           *)
(***************************************************************************)
\* the segment starts the recurrence tries for a segment that ends at right
RetCandidates(right) ==
    LET lo == IF right + 1 - ret.max_size > ret.min_pos
              THEN right + 1 - ret.max_size ELSE ret.min_pos
        hi == IF right + 2 - ret.min_size > ret.min_pos
              THEN right + 2 - ret.min_size ELSE ret.min_pos
    IN  lo..(hi - 1)

\* B[left - min_pos] + gamma + dist(left, right), with the B the call ended with
RetCandidateCost(left, right) ==
    FAdd(FAdd(ret.B[left - ret.min_pos + 1], ret.gamma), Fin(Direct(left, right).dist))

\* B[right + 1 - min_pos] is the least candidate cost and p[right - min_pos] + 1 is
\* the largest candidate that has it
TieToLargest(right) ==
    LET best == ret.B[right + 1 - ret.min_pos + 1]
        left == ret.p[right - ret.min_pos + 1] + 1
    IN  /\ left \in RetCandidates(right)
        /\ RetCandidateCost(left, right) = best
        /\ \A l \in RetCandidates(right) :
               /\ FLe(best, RetCandidateCost(l, right))
               /\ l > left => RetCandidateCost(l, right) # best

(***************************************************************************)
(* C14  Tie-break, as claimed: after every successful call, for every      *)
(* right in [min_pos, max_pos) with a candidate, B[right + 1 - min_pos] is *)
(* the minimum of B[left - min_pos] + gamma + dist(left, right) over the   *)
(* candidates left, and p[right - min_pos] + 1 is the largest candidate    *)
(* with that cost, also when the minimum is +infinity.                     *)
(***************************************************************************)
C14_TieToLargestAnyGamma ==
    PlanDone =>
        \A right \in ret.min_pos..(ret.max_pos - 1) :
            RetCandidates(right) # {} => TieToLargest(right)

(***************************************************************************)
(* C14  Amended: the same for every call whose gamma is finite.            *)
(***************************************************************************)
C14_TieToLargest ==
    (PlanDone /\ IsFinite(ret.gamma)) =>
        \A right \in ret.min_pos..(ret.max_pos - 1) :
            RetCandidates(right) # {} => TieToLargest(right)

\* a call in which two candidates tie at a finite cost and the larger one is kept
C14_Witness ==
    /\ PlanDone /\ IsFinite(ret.gamma)
    /\ \E right \in ret.min_pos..(ret.max_pos - 1) :
           \E l1, l2 \in RetCandidates(right) :
               /\ l1 < l2
               /\ IsFinite(RetCandidateCost(l1, right))
               /\ RetCandidateCost(l1, right) = RetCandidateCost(l2, right)
               /\ ret.B[right + 1 - ret.min_pos + 1] = RetCandidateCost(l2, right)
               /\ ret.p[right - ret.min_pos + 1] + 1 = l2

(***************************************************************************)
(* C15  No false positives.  For every query of a valid range: the cache   *)
(* answers it (nothing is computed) exactly when the slot of the range     *)
(* holds that very range, which is what the last set on that slot wrote,   *)
(* and the answer is then the mu or dist stored there; otherwise, the slot *)
(* being empty or holding another range, the value is computed and set     *)
(* into that slot alone.  On a new cache every query misses.               *)
(***************************************************************************)
\* the slot the last query looked at, as the query found it
RetSlotBefore == ItemAt(ret.before, SlotOf(ret.left, ret.right))

RetHit == ret.computes = <<>>

C15_NoFalsePositives ==
    (IsQuery /\ ValidRange(ret.left, ret.right)) =>
        /\ ret.status = "ok"
        /\ RetHit <=> (RetSlotBefore.left = ret.left /\ RetSlotBefore.right = ret.right)
        /\ RetHit =>
               /\ ret.val = IF ret.op = "mu" THEN RetSlotBefore.mu ELSE RetSlotBefore.dist
               /\ items_ = ret.before
        /\ ~RetHit =>
               /\ ItemAt(items_, SlotOf(ret.left, ret.right))
                      = [left |-> ret.left, right |-> ret.right,
                         mu |-> Direct(ret.left, ret.right).mu,
                         dist |-> Direct(ret.left, ret.right).dist]
               /\ \A i \in (DOMAIN items_ \cup DOMAIN ret.before)
                              \ {SlotOf(ret.left, ret.right)} :
                      ItemAt(items_, i) = ItemAt(ret.before, i)
        /\ ret.before = Fresh => ~RetHit

\* a query that found in its slot another range of y, with other values, and missed
C15_Witness ==
    /\ IsQuery /\ ValidRange(ret.left, ret.right) /\ ret.status = "ok"
    /\ ValidRange(RetSlotBefore.left, RetSlotBefore.right)
    /\ <<RetSlotBefore.left, RetSlotBefore.right>> # <<ret.left, ret.right>>
    /\ ~RetHit
    /\ ret.val # (IF ret.op = "mu" THEN RetSlotBefore.mu ELSE RetSlotBefore.dist)
    /\ ItemAt(items_, SlotOf(ret.left, ret.right)).left = ret.left

(***************************************************************************)
(* C16  The dynamic program runs to its end.  Every call that passes the   *)
(* bounds check succeeds and returns max_pos - min_pos backpointers; each  *)
(* query (left, right) it makes has min_pos <= left <= right < max_pos and *)
(* min_size <= right - left + 1 <= max_size; and the queries come in the   *)
(* order of right, then of left, so the B[left - min_pos] a candidate      *)
(* reads belongs to a position that an earlier pass has dealt with.        *)
(***************************************************************************)
QueryFits(c) ==
    /\ ret.min_pos <= c[1] /\ c[1] <= c[2] /\ c[2] < ret.max_pos
    /\ ret.min_size <= c[2] - c[1] + 1 /\ c[2] - c[1] + 1 <= ret.max_size

C16_RunsToCompletion ==
    (IsPlan /\ ~BoundsViolated) =>
        /\ ret.status = "ok"
        /\ Len(ret.p) = ret.max_pos - ret.min_pos
        /\ Len(ret.B) = ret.max_pos - ret.min_pos + 1
        /\ \A k \in 1..Len(ret.queries) : QueryFits(ret.queries[k])
        /\ \A k \in 1..(Len(ret.queries) - 1) :
               \/ ret.queries[k][2] < ret.queries[k + 1][2]
               \/ /\ ret.queries[k][2] = ret.queries[k + 1][2]
                  /\ ret.queries[k][1] < ret.queries[k + 1][1]

\* a call away from position 0 and up to the end of y, with a gamma that is not
\* finite, that made several queries and returned its backpointers
C16_Witness ==
    /\ IsPlan /\ ~BoundsViolated /\ ret.status = "ok"
    /\ ~IsFinite(ret.gamma)
    /\ ret.min_pos > 0 /\ ret.max_pos = Len(y)
    /\ Len(ret.queries) >= 3
    /\ Len(ret.p) = ret.max_pos - ret.min_pos

(***************************************************************************)
(* C17  Reachability marking.  After every successful call with a finite   *)
(* gamma, for every i in 1 .. max_pos - min_pos, B[i] is +infinity exactly *)
(* when [min_pos, min_pos + i) has no partition into segments of min_size  *)
(* to max_size elements; and B[right + 1 - min_pos] is +infinity whenever  *)
(* right has no candidate.                                                 *)
(***************************************************************************)
\* the partitions of the first i positions of the call's range
RetPrefixPartitions(i) ==
    Partitions(ret.min_pos, ret.min_pos + i, ret.min_size, ret.max_size)

C17_InfinityMarksUnreachable ==
    (PlanDone /\ IsFinite(ret.gamma)) =>
        \A i \in 1..(ret.max_pos - ret.min_pos) :
            /\ ret.B[i + 1] = PInf <=> RetPrefixPartitions(i) = {}
            /\ RetCandidates(ret.min_pos + i - 1) = {} => ret.B[i + 1] = PInf

\* a call that left one position at +infinity for want of a candidate, another at
\* +infinity although it had candidates, and reached a third
C17_Witness ==
    /\ PlanDone /\ IsFinite(ret.gamma)
    /\ \E i \in 1..(ret.max_pos - ret.min_pos) :
           RetCandidates(ret.min_pos + i - 1) = {} /\ ret.B[i + 1] = PInf
    /\ \E i \in 1..(ret.max_pos - ret.min_pos) :
           RetCandidates(ret.min_pos + i - 1) # {} /\ ret.B[i + 1] = PInf
    /\ \E i \in 1..(ret.max_pos - ret.min_pos) :
           IsFinite(ret.B[i + 1]) /\ RetPrefixPartitions(i) # {}

(***************************************************************************)
(* C18  The cost array, as claimed: after every successful call, for every *)
(* i in 1 .. max_pos - min_pos for which [min_pos, min_pos + i) has a      *)
(* partition, B[i] is the least total cost of those partitions, the cost   *)
(* of a partition being the sum over its segments of dist(segment) +       *)
(* gamma; for a call whose only partition is the whole range,              *)
(* B = dist + gamma.                                                       *)
(***************************************************************************)
\* c is the least cost of the partitions of the first i positions
IsLeastCost(c, i) ==
    /\ \E q \in RetPrefixPartitions(i) : Cost(q, ret.gamma) = c
    /\ \A q \in RetPrefixPartitions(i) : FLe(c, Cost(q, ret.gamma))

C18_CostIsTotal ==
    PlanDone =>
        \A i \in 1..(ret.max_pos - ret.min_pos) :
            RetPrefixPartitions(i) # {} => IsLeastCost(ret.B[i + 1], i)

(***************************************************************************)
(* C18  Amended: for every call with a finite gamma, B[i] is that least    *)
(* total cost less one gamma, B[i] + gamma being the least cost: the sum   *)
(* of dist over the segments plus one gamma for each segment after the     *)
(* first.  For a call whose only partition is the whole range, B = dist.   *)
(***************************************************************************)
C18_CostLessGamma ==
    (PlanDone /\ IsFinite(ret.gamma)) =>
        /\ \A i \in 1..(ret.max_pos - ret.min_pos) :
               RetPrefixPartitions(i) # {} =>
                   IsLeastCost(FAdd(ret.B[i + 1], ret.gamma), i)
        /\ (WholeRangeCall /\ RetPartitions # {}) =>
               ret.B[ret.max_pos - ret.min_pos + 1]
                   = Fin(Direct(ret.min_pos, ret.max_pos - 1).dist)

\* a call with a gamma other than 0 whose cheapest partition of the whole range, one
\* among several, has more than one segment
C18_Witness ==
    /\ PlanDone /\ IsFinite(ret.gamma) /\ ret.gamma # Fin(0)
    /\ ret.min_pos < ret.max_pos
    /\ Cardinality(RetPartitions) >= 2
    /\ RetWalk.ok /\ Len(RetWalk.segs) >= 2
    /\ IsLeastCost(FAdd(ret.B[ret.max_pos - ret.min_pos + 1], ret.gamma),
                   ret.max_pos - ret.min_pos)
    /\ ~IsLeastCost(ret.B[ret.max_pos - ret.min_pos + 1], ret.max_pos - ret.min_pos)

====
